---- MODULE Spec2Model ----
(***************************************************************************)
(* axum-extractor-config: request-scoped configuration of extractors.      *)
(*                                                                         *)
(* A pipeline ("app") is a stack of AddConfig services (config.rs) around  *)
(* an endpoint.  The endpoint is either an axum handler that binds one     *)
(* configurable extractor (via_extensions / lib.rs: runtime configuration, *)
(* via_types: compile-time configuration) or an arbitrary tower service S  *)
(* (AddConfig is generic in S, with Error = S::Error).                     *)
(*                                                                         *)
(* layers[1] is the outermost layer: `app.layer(a).layer(b)` gives         *)
(* <<b, a>>, and a request meets b first.                                  *)
(***************************************************************************)
EXTENDS Integers, Sequences, FiniteSets, TLC

VARIABLES
    phase,      \* "build": the pipelines are being assembled; "serve": requests run
    draft,      \* the $config value under construction by the builder methods
    apps,       \* app id -> [layers: Seq of $config held by AddConfig, endpoint]
    pc,         \* request id -> position of the request in its pipeline
    target,     \* request id -> the app the request was sent to
    request,    \* request id -> the Request / RequestParts value in flight
    depth,      \* request id -> index of the layer that acts next
    extracted,  \* request id -> the Result returned by the extractor's from_request
    outcome,    \* request id -> the Result travelling back through the layers
    log,        \* request id -> history of the steps taken for the request
    calls,      \* the handlers given to rejection_handler(f) since the draft's new()
    ready       \* app id -> what the endpoint's poll_ready returns

vars == <<phase, draft, apps, pc, target, request, depth, extracted, outcome, log,
          calls, ready>>

(***************************************************************************)
(* Bounds                                                                  *)
(***************************************************************************)
MaxLayers == 2

\* The most calls of rejection_handler(f) on one configuration under construction.
MaxCalls == 2

(***************************************************************************)
(* Program constants                                                       *)
(***************************************************************************)
INTERNAL_SERVER_ERROR == 500
UNPROCESSABLE_ENTITY == 422
BAD_REQUEST == 400
OK == 200

AppIds == {"a1", "a2"}
ReqIds == {"r1", "r2"}

\* The three payload kinds the macro is instantiated for.
Kinds == {"Json", "Query", "Form"}

\* Rejection handler functions a user hands to $config::rejection_handler.
HandlerFns == {"rejection_handler", "bad_request_handler"}

TextPlain == "text/plain; charset=utf-8"
ApplicationJson == "application/json"
FormUrlEncoded == "application/x-www-form-urlencoded"

ContentTypes == {ApplicationJson, FormUrlEncoded, ""}

\* Payloads, as token sequences: {"id": 1}, {"id": 2}, {"id": "foo"}, {"id"
Payloads == {<<"id", "1">>, <<"id", "2">>, <<"id", "foo">>, <<"id">>}

(***************************************************************************)
(* Option / Result values                                                  *)
(***************************************************************************)
None == [tag |-> "None"]
Some(v) == [tag |-> "Some", val |-> v]
Ok(v) == [tag |-> "Ok", val |-> v]
Err(e) == [tag |-> "Err", val |-> e]

(***************************************************************************)
(* $config<B>: the configuration payload of one kind                       *)
(***************************************************************************)
\* impl Default for $config: no rejection handler.
\* Variant: the default configuration comes with a handler preset.
DefaultConfigPreset(kind) == [kind |-> kind, rejection_handler |-> Some("rejection_handler")]

DefaultConfig(kind) == [kind |-> kind, rejection_handler |-> None]

\* $config::new() is Self::default().
NewConfig(kind) == DefaultConfig(kind)

\* $config::rejection_handler(self, f): the handler becomes Some(Arc::new(f)).
\* Variant: a handler already set is kept.
WithRejectionHandlerKeepFirst(config, f) ==
    IF config.rejection_handler = None
    THEN [config EXCEPT !.rejection_handler = Some(f)]
    ELSE config

WithRejectionHandler(config, f) == [config EXCEPT !.rejection_handler = Some(f)]

\* impl Clone for $config: the Arc is cloned, the handler is the same function.
CloneConfig(config) == [kind |-> config.kind, rejection_handler |-> config.rejection_handler]

Configs == {DefaultConfig(k) : k \in Kinds}
             \cup {WithRejectionHandler(DefaultConfig(k), f) : k \in Kinds, f \in HandlerFns}

NoDraft == [kind |-> "-", rejection_handler |-> None]

\* std::any::type_name::<$config<B>>() for the one body type of the pipelines.
TypeName(kind) ==
    "axum_extractor_config::via_extensions::" \o kind \o "Config<hyper::body::body::Body>"

\* Variant: every Config<_, B> shares one key, whatever its configuration type.
ConfigKeyAnyConfig(kind) == <<"Config", "Body">>

\* The key of Config<$config<B>, B> in the request's extensions: its type identity.
ConfigKey(kind) == <<kind \o "Config", "Body">>

(***************************************************************************)
(* Request extensions (http::Extensions): a type-keyed map                 *)
(***************************************************************************)
ExtGet(extensions, key) ==
    IF \E e \in extensions : e.key = key
    THEN Some((CHOOSE e \in extensions : e.key = key).value)
    ELSE None

\* Extensions::insert replaces a value of the same type.
ExtInsert(extensions, key, value) ==
    {e \in extensions : e.key # key} \cup {[key |-> key, value |-> value]}

(***************************************************************************)
(* Responses and IntoResponse                                              *)
(***************************************************************************)
RECURSIVE Join(_)
Join(tokens) ==
    IF tokens = <<>> THEN ""
    ELSE IF Len(tokens) = 1 THEN Head(tokens)
    ELSE Head(tokens) \o " " \o Join(Tail(tokens))

\* Display of a rejection: its message followed by the offending input.
RejectionText(rejection) == rejection.variant \o ": " \o Join(rejection.input)

\* Status of the decoding library's response for a rejection.  The tests fix 422
\* for a JSON data error; the other statuses are the library's own.
RejectionStatus(rejection) ==
    CASE rejection.variant = "JsonDataError" -> UNPROCESSABLE_ENTITY
      [] rejection.variant = "JsonSyntaxError" -> BAD_REQUEST
      [] rejection.variant = "MissingJsonContentType" -> 415
      [] rejection.variant = "InvalidFormContentType" -> 415
      [] rejection.variant = "BodyAlreadyExtracted" -> INTERNAL_SERVER_ERROR
      [] OTHER -> BAD_REQUEST

\* Values of the types that implement IntoResponse here.
AsResponse(resp) == [repr |-> "Response", resp |-> resp]
AsRejection(rejection) == [repr |-> "Rejection", rejection |-> rejection]
AsStatusText(status, text) == [repr |-> "StatusText", status |-> status, text |-> text]
Unit == [repr |-> "Unit"]

\* IntoResponse::into_response: the identity on a Response, a conversion otherwise.
IntoResponse(v) ==
    CASE v.repr = "Response" -> v.resp
      [] v.repr = "Rejection" ->
            [status |-> RejectionStatus(v.rejection), ctype |-> TextPlain,
             body |-> RejectionText(v.rejection)]
      [] v.repr = "StatusText" ->
            [status |-> v.status, ctype |-> TextPlain, body |-> v.text]
      [] v.repr = "Unit" -> [status |-> OK, ctype |-> "", body |-> ""]

\* {:?} of a &str: the string between double quotes (a type name of this crate
\* holds no character that Debug escapes).
DebugStr(s) == "\"" \o s \o "\""

\* Variant: the message with its grammar repaired ("can only be added once").
DuplicateResponseRepaired(kind) ==
    IntoResponse(AsStatusText(INTERNAL_SERVER_ERROR,
        "Config of type " \o DebugStr(TypeName(kind))
            \o " was already added. Configs can only be added once"))

\* The response of AddConfig::call when the config is already in the extensions.
DuplicateResponse(kind) ==
    IntoResponse(AsStatusText(INTERNAL_SERVER_ERROR,
        "Config of type " \o DebugStr(TypeName(kind))
            \o " was already added. Configs can you be added once"))

(***************************************************************************)
(* The decoding library (axum::extract::{Json, Query, Form})               *)
(***************************************************************************)
ParseU32(token) == CASE token = "1" -> 1 [] token = "2" -> 2 [] OTHER -> 0

IsU32(token) == token \in {"1", "2"}

\* serde: encode a value of the target type.
Encode(value) == <<"id", IF value.id = 1 THEN "1" ELSE "2">>

Rejection(kind, variant, input) == [kind |-> kind, variant |-> variant, input |-> input]

\* Deserialize the target type `struct Payload { id: u32 }`.
Deserialize(kind, payload) ==
    IF Len(payload) = 2 /\ payload[1] = "id"
    THEN IF IsU32(payload[2])
         THEN Ok([id |-> ParseU32(payload[2])])
         ELSE Err(Rejection(kind,
                  IF kind = "Json" THEN "JsonDataError" ELSE "FailedToDeserializeQueryString",
                  payload))
    ELSE Err(Rejection(kind,
             IF kind = "Json" THEN "JsonSyntaxError" ELSE "FailedToDeserializeQueryString",
             payload))

\* Variant: the query string is consumed by the decode as a body is.
DecodeDraining(kind, rp) ==
    IF kind = "Query"
    THEN [result |-> Deserialize(kind, rp.payload), rp |-> [rp EXCEPT !.payload = <<>>]]
    ELSE IF kind = "Json" /\ rp.ctype # ApplicationJson
    THEN [result |-> Err(Rejection(kind, "MissingJsonContentType", <<>>)), rp |-> rp]
    ELSE IF kind = "Form" /\ rp.ctype # FormUrlEncoded
    THEN [result |-> Err(Rejection(kind, "InvalidFormContentType", <<>>)), rp |-> rp]
    ELSE IF rp.body = "taken"
    THEN [result |-> Err(Rejection(kind, "BodyAlreadyExtracted", <<>>)), rp |-> rp]
    ELSE [result |-> Deserialize(kind, rp.payload), rp |-> [rp EXCEPT !.body = "taken"]]

\* req.extract::<axum::extract::$ident<T>>(): the result and the request afterwards.
\* Json and Form read (take) the body; Query reads the URI only.
Decode(kind, rp) ==
    IF kind = "Query"
    THEN [result |-> Deserialize(kind, rp.payload), rp |-> rp]
    ELSE IF kind = "Json" /\ rp.ctype # ApplicationJson
    THEN [result |-> Err(Rejection(kind, "MissingJsonContentType", <<>>)), rp |-> rp]
    ELSE IF kind = "Form" /\ rp.ctype # FormUrlEncoded
    THEN [result |-> Err(Rejection(kind, "InvalidFormContentType", <<>>)), rp |-> rp]
    ELSE IF rp.body = "taken"
    THEN [result |-> Err(Rejection(kind, "BodyAlreadyExtracted", <<>>)), rp |-> rp]
    ELSE [result |-> Deserialize(kind, rp.payload), rp |-> [rp EXCEPT !.body = "taken"]]

(***************************************************************************)
(* Rejection handlers (user functions) and the IntoResponseFromRejection   *)
(* capability                                                              *)
(***************************************************************************)
\* f(rejection, req).into_response() for the handler functions of the tests and docs.
ApplyHandler(f, rejection, rp) ==
    IF f = "rejection_handler"
    THEN [status |-> RejectionStatus(rejection), ctype |-> ApplicationJson,
          body |-> "{message: " \o RejectionText(rejection) \o "}"]
    ELSE [status |-> BAD_REQUEST, ctype |-> ApplicationJson,
          body |-> "{error: " \o RejectionText(rejection) \o "}"]

\* The capability types C of via_types: the rejection type itself, or a custom type.
Capabilities == {"Rejection", "CustomRejection"}

\* Variant: the rejection type's own conversion answers with a generic 500.
IntoResponseFromRejectionGeneric(C, rejection, rp) ==
    IF C = "Rejection"
    THEN AsResponse(IntoResponse(AsStatusText(INTERNAL_SERVER_ERROR, "rejected")))
    ELSE AsResponse(ApplyHandler("rejection_handler", rejection, rp))

\* C::into_response_from_rejection(rejection, req): a value of C::Response.
IntoResponseFromRejection(C, rejection, rp) ==
    IF C = "Rejection"
    THEN AsRejection(rejection)
    ELSE AsResponse(ApplyHandler("rejection_handler", rejection, rp))

(***************************************************************************)
(* Config<T, B>: the carrier, as an extractor                              *)
(***************************************************************************)
Carrier(config) == [config |-> config]

\* Config::into_inner
IntoInner(carrier) == carrier.config

\* Variant: the lookup asks for the bare $config<B>, which no layer installs.
ConfigFromRequestBareKey(kind, rp) ==
    LET got == ExtGet(rp.extensions, <<kind \o "Config">>)
    IN  IF got.tag = "Some"
        THEN Ok(Carrier(CloneConfig(IntoInner(got.val))))
        ELSE Err([repr |-> "MissingExtension"])

\* Variant: when the kind's own config is missing, any config present is used.
ConfigFromRequestAnyKind(kind, rp) ==
    LET got == ExtGet(rp.extensions, ConfigKey(kind))
    IN  IF got.tag = "Some"
        THEN Ok(Carrier(CloneConfig(IntoInner(got.val))))
        ELSE IF rp.extensions # {}
        THEN Ok(Carrier(CloneConfig(IntoInner((CHOOSE e \in rp.extensions : TRUE).value))))
        ELSE Err([repr |-> "MissingExtension"])

\* impl FromRequest for Config<T, B>: a clone of the carrier in the extensions, or
\* the rejection of Extension<Self>.  The request is only read.
ConfigFromRequest(kind, rp) ==
    LET got == ExtGet(rp.extensions, ConfigKey(kind))
    IN  IF got.tag = "Some"
        THEN Ok(Carrier(CloneConfig(IntoInner(got.val))))
        ELSE Err([repr |-> "MissingExtension"])

\* Result::unwrap_or_default with impl Default for Config<T, B>.
UnwrapOrDefault(result, kind) ==
    IF result.tag = "Ok" THEN result.val ELSE Carrier(DefaultConfig(kind))

(***************************************************************************)
(* The extractors                                                          *)
(***************************************************************************)
\* Variant: a missing config is propagated (`?`) instead of defaulted.
FromRequestViaExtensionsRequireConfig(kind, rp) ==
    LET d == Decode(kind, rp)
        decoded == [ev |-> "decode", kind |-> kind]
    IN  IF d.result.tag = "Ok"
        THEN [result |-> Ok(d.result.val), rp |-> d.rp, steps |-> <<decoded>>]
        ELSE LET rejection == d.result.val
                 found == ConfigFromRequest(kind, d.rp)
                 lookup == [ev |-> "lookup", kind |-> kind, found |-> found.tag = "Ok"]
             IN  IF found.tag = "Err"
                 THEN [result |-> Err(AsResponse(IntoResponse(AsStatusText(
                                   INTERNAL_SERVER_ERROR, "Missing request extension")))),
                       rp |-> d.rp, steps |-> <<decoded, lookup>>]
                 ELSE IF IntoInner(found.val).rejection_handler.tag = "Some"
                 THEN [result |-> Err(AsResponse(ApplyHandler(
                                   IntoInner(found.val).rejection_handler.val, rejection, d.rp))),
                       rp |-> d.rp,
                       steps |-> <<decoded, lookup,
                                   [ev |-> "rejection_handler",
                                    f |-> IntoInner(found.val).rejection_handler.val,
                                    rejection |-> rejection, rp |-> d.rp]>>]
                 ELSE [result |-> Err(AsResponse(IntoResponse(AsRejection(rejection)))),
                       rp |-> d.rp, steps |-> <<decoded, lookup>>]

\* Variant: the config is taken out of the extensions instead of cloned.
FromRequestViaExtensionsTake(kind, rp) ==
    LET d == Decode(kind, rp)
        decoded == [ev |-> "decode", kind |-> kind]
        taken == [d.rp EXCEPT !.extensions = {e \in @ : e.key # ConfigKey(kind)}]
    IN  IF d.result.tag = "Ok"
        THEN [result |-> Ok(d.result.val), rp |-> d.rp, steps |-> <<decoded>>]
        ELSE LET rejection == d.result.val
                 found == ConfigFromRequest(kind, d.rp)
                 config == IntoInner(UnwrapOrDefault(found, kind))
                 lookup == [ev |-> "lookup", kind |-> kind, found |-> found.tag = "Ok"]
             IN  IF config.rejection_handler.tag = "Some"
                 THEN [result |-> Err(AsResponse(
                                   ApplyHandler(config.rejection_handler.val, rejection, taken))),
                       rp |-> taken,
                       steps |-> <<decoded, lookup,
                                   [ev |-> "rejection_handler",
                                    f |-> config.rejection_handler.val,
                                    rejection |-> rejection, rp |-> taken]>>]
                 ELSE [result |-> Err(AsResponse(IntoResponse(AsRejection(rejection)))),
                       rp |-> taken,
                       steps |-> <<decoded, lookup>>]

\* Variant: a failed decode is attempted a second time before the recovery.
FromRequestViaExtensionsRetry(kind, rp) ==
    LET d == Decode(kind, rp)
        decoded == [ev |-> "decode", kind |-> kind]
    IN  IF d.result.tag = "Ok"
        THEN [result |-> Ok(d.result.val), rp |-> d.rp, steps |-> <<decoded>>]
        ELSE LET again == Decode(kind, d.rp)
                 rejection == again.result.val
                 found == ConfigFromRequest(kind, again.rp)
                 config == IntoInner(UnwrapOrDefault(found, kind))
                 lookup == [ev |-> "lookup", kind |-> kind, found |-> found.tag = "Ok"]
             IN  IF again.result.tag = "Ok"
                 THEN [result |-> Ok(again.result.val), rp |-> again.rp,
                       steps |-> <<decoded, decoded>>]
                 ELSE IF config.rejection_handler.tag = "Some"
                 THEN [result |-> Err(AsResponse(
                                   ApplyHandler(config.rejection_handler.val, rejection, again.rp))),
                       rp |-> again.rp,
                       steps |-> <<decoded, decoded, lookup,
                                   [ev |-> "rejection_handler",
                                    f |-> config.rejection_handler.val,
                                    rejection |-> rejection, rp |-> again.rp]>>]
                 ELSE [result |-> Err(AsResponse(IntoResponse(AsRejection(rejection)))),
                       rp |-> again.rp,
                       steps |-> <<decoded, decoded, lookup>>]

\* via_extensions (and lib.rs) from_request: the result, the request afterwards
\* and the steps taken.
FromRequestViaExtensions(kind, rp) ==
    LET d == Decode(kind, rp)
        decoded == [ev |-> "decode", kind |-> kind]
    IN  IF d.result.tag = "Ok"
        THEN [result |-> Ok(d.result.val), rp |-> d.rp, steps |-> <<decoded>>]
        ELSE LET rejection == d.result.val
                 found == ConfigFromRequest(kind, d.rp)
                 config == IntoInner(UnwrapOrDefault(found, kind))
                 lookup == [ev |-> "lookup", kind |-> kind, found |-> found.tag = "Ok"]
             IN  IF config.rejection_handler.tag = "Some"
                 THEN [result |-> Err(AsResponse(
                                   ApplyHandler(config.rejection_handler.val, rejection, d.rp))),
                       rp |-> d.rp,
                       steps |-> <<decoded, lookup,
                                   [ev |-> "rejection_handler",
                                    f |-> config.rejection_handler.val,
                                    rejection |-> rejection, rp |-> d.rp]>>]
                 ELSE [result |-> Err(AsResponse(IntoResponse(AsRejection(rejection)))),
                       rp |-> d.rp,
                       steps |-> <<decoded, lookup>>]

\* Variant: the decoded value is dropped for the target type's default.
FromRequestViaTypesDefaultValue(kind, C, rp) ==
    LET d == Decode(kind, rp)
        decoded == [ev |-> "decode", kind |-> kind]
    IN  IF d.result.tag = "Ok"
        THEN [result |-> Ok([id |-> 0]), rp |-> d.rp, steps |-> <<decoded>>]
        ELSE [result |-> Err(IntoResponseFromRejection(C, d.result.val, d.rp)),
              rp |-> d.rp,
              steps |-> <<decoded,
                          [ev |-> "into_response_from_rejection", C |-> C,
                           rejection |-> d.result.val, rp |-> d.rp]>>]

\* Variant: C is ignored, the rejection itself is the error.
FromRequestViaTypesIgnoresC(kind, C, rp) ==
    LET d == Decode(kind, rp)
        decoded == [ev |-> "decode", kind |-> kind]
    IN  IF d.result.tag = "Ok"
        THEN [result |-> Ok(d.result.val), rp |-> d.rp, steps |-> <<decoded>>]
        ELSE [result |-> Err(AsRejection(d.result.val)),
              rp |-> d.rp,
              steps |-> <<decoded>>]

\* Variant: a rejection handler found in the extensions takes precedence over C.
FromRequestViaTypesLooksUp(kind, C, rp) ==
    LET d == Decode(kind, rp)
        decoded == [ev |-> "decode", kind |-> kind]
        found == ConfigFromRequest(kind, d.rp)
        config == IntoInner(UnwrapOrDefault(found, kind))
    IN  IF d.result.tag = "Ok"
        THEN [result |-> Ok(d.result.val), rp |-> d.rp, steps |-> <<decoded>>]
        ELSE IF config.rejection_handler.tag = "Some"
        THEN [result |-> Err(AsResponse(
                          ApplyHandler(config.rejection_handler.val, d.result.val, d.rp))),
              rp |-> d.rp,
              steps |-> <<decoded,
                          [ev |-> "into_response_from_rejection", C |-> C,
                           rejection |-> d.result.val, rp |-> d.rp]>>]
        ELSE [result |-> Err(IntoResponseFromRejection(C, d.result.val, d.rp)),
              rp |-> d.rp,
              steps |-> <<decoded,
                          [ev |-> "into_response_from_rejection", C |-> C,
                           rejection |-> d.result.val, rp |-> d.rp]>>]

\* via_types from_request: the recovery is C's conversion, no lookup.
FromRequestViaTypes(kind, C, rp) ==
    LET d == Decode(kind, rp)
        decoded == [ev |-> "decode", kind |-> kind]
    IN  IF d.result.tag = "Ok"
        THEN [result |-> Ok(d.result.val), rp |-> d.rp, steps |-> <<decoded>>]
        ELSE [result |-> Err(IntoResponseFromRejection(C, d.result.val, d.rp)),
              rp |-> d.rp,
              steps |-> <<decoded,
                          [ev |-> "into_response_from_rejection", C |-> C,
                           rejection |-> d.result.val, rp |-> d.rp]>>]

(***************************************************************************)
(* AddConfig: the service a ConfigLayer wraps around its inner service     *)
(***************************************************************************)
\* Variant: no check for a config already present; the insert replaces it.
AddConfigCallNoCheck(config, req) ==
    [future |-> "left",
     ready |-> None,
     req |-> [req EXCEPT !.extensions =
                 ExtInsert(@, ConfigKey(config.kind), Carrier(CloneConfig(config)))]]

\* Variant: the request is forwarded without the config being installed.
AddConfigCallNoInstall(config, req) ==
    IF ExtGet(req.extensions, ConfigKey(config.kind)).tag = "Some"
    THEN [future |-> "right",
          ready |-> Ok(AsResponse(DuplicateResponse(config.kind))),
          req |-> req]
    ELSE [future |-> "left", ready |-> None, req |-> req]

\* Variant: the test for a config already present is inverted.
AddConfigCallInverted(config, req) ==
    IF ExtGet(req.extensions, ConfigKey(config.kind)).tag = "None"
    THEN [future |-> "right",
          ready |-> Ok(AsResponse(DuplicateResponse(config.kind))),
          req |-> req]
    ELSE [future |-> "left",
          ready |-> None,
          req |-> [req EXCEPT !.extensions =
                      ExtInsert(@, ConfigKey(config.kind), Carrier(CloneConfig(config)))]]

\* Variant: a config already present is kept and the request forwarded, no error.
AddConfigCallKeepFirst(config, req) ==
    IF ExtGet(req.extensions, ConfigKey(config.kind)).tag = "Some"
    THEN [future |-> "left", ready |-> None, req |-> req]
    ELSE [future |-> "left",
          ready |-> None,
          req |-> [req EXCEPT !.extensions =
                      ExtInsert(@, ConfigKey(config.kind), Carrier(CloneConfig(config)))]]

\* Variant: the duplicate is reported as a service error, not as a response.
AddConfigCallFails(config, req) ==
    IF ExtGet(req.extensions, ConfigKey(config.kind)).tag = "Some"
    THEN [future |-> "right",
          ready |-> Err([repr |-> "Error", msg |-> "duplicate config"]),
          req |-> req]
    ELSE [future |-> "left",
          ready |-> None,
          req |-> [req EXCEPT !.extensions =
                      ExtInsert(@, ConfigKey(config.kind), Carrier(CloneConfig(config)))]]

\* AddConfig::call up to the call of the inner service: either the ready duplicate
\* response (right future), or the request with the config installed (left future).
AddConfigCall(config, req) ==
    IF ExtGet(req.extensions, ConfigKey(config.kind)).tag = "Some"
    THEN [future |-> "right",
          ready |-> Ok(AsResponse(DuplicateResponse(config.kind))),
          req |-> req]
    ELSE [future |-> "left",
          ready |-> None,
          req |-> [req EXCEPT !.extensions =
                      ExtInsert(@, ConfigKey(config.kind), Carrier(CloneConfig(config)))]]

\* Poll<Result<(), S::Error>>: what poll_ready returns.
Polls == {"Pending", "ReadyOk", "ReadyErr"}

\* Variant: the layer reports itself ready without asking its inner service.
AddConfigPollReadyEager(inner) == "ReadyOk"

\* AddConfig::poll_ready: self.inner.poll_ready(cx).
AddConfigPollReady(inner) == inner

\* poll_ready of a stack of layers around an endpoint.
RECURSIVE PollReady(_, _)
PollReady(layers, endpoint) ==
    IF layers = <<>> THEN endpoint
    ELSE AddConfigPollReady(PollReady(Tail(layers), endpoint))

\* map_ok(IntoResponse::into_response): an Ok is converted, an Err passes.
MapOk(result) ==
    IF result.tag = "Ok" THEN Ok(AsResponse(IntoResponse(result.val))) ELSE result

\* Variant: a layer of a configuration type already on the stack takes its place.
LayerOnDedup(config, layers) ==
    <<CloneConfig(config)>> \o SelectSeq(layers, LAMBDA c : c.kind # config.kind)

\* Layer::layer for $config / Config: AddConfig holding a clone, around the stack.
LayerOn(config, layers) == <<CloneConfig(config)>> \o layers

(***************************************************************************)
(* Endpoints                                                               *)
(***************************************************************************)
Endpoints ==
    [family : {"via_extensions"}, kind : Kinds, C : {"-"}]
        \cup [family : {"via_types"}, kind : Kinds, C : Capabilities]
        \cup [family : {"service"}, kind : {"-"}, C : {"-"}]

\* What an arbitrary inner service S may resolve to: Ok(S::Response) or Err(S::Error).
ServiceOutcomes ==
    { Ok(AsResponse([status |-> OK, ctype |-> TextPlain, body |-> "service"])),
      Ok(AsStatusText(BAD_REQUEST, "service")),
      Err([repr |-> "Error", msg |-> "service error"]) }

\* The axum handler `async fn handler(_: $ident<Payload>) {}` after extraction:
\* the rejection's response, or the response of the unit the function returns.
HandlerOutcome(ex) ==
    IF ex.tag = "Ok" THEN Ok(AsResponse(IntoResponse(Unit)))
    ELSE Ok(AsResponse(IntoResponse(ex.val)))

FromRequest(endpoint, rp) ==
    IF endpoint.family = "via_extensions"
    THEN FromRequestViaExtensions(endpoint.kind, rp)
    ELSE FromRequestViaTypes(endpoint.kind, endpoint.C, rp)

(***************************************************************************)
(* State machine                                                           *)
(***************************************************************************)
NoRequest == [ctype |-> "", payload |-> <<>>, body |-> "present", extensions |-> {}]

Layers(r) == apps[target[r]].layers

\* Before any layer is added an app is its endpoint alone.
Bare(endpoint) == [layers |-> <<>>, endpoint |-> endpoint]

ServiceEndpoint == [family |-> "service", kind |-> "-", C |-> "-"]

InitRequests ==
    /\ pc = [r \in ReqIds |-> "idle"]
    /\ target = [r \in ReqIds |-> "a1"]
    /\ request = [r \in ReqIds |-> NoRequest]
    /\ depth = [r \in ReqIds |-> 0]
    /\ extracted = [r \in ReqIds |-> None]
    /\ outcome = [r \in ReqIds |-> None]
    /\ log = [r \in ReqIds |-> <<>>]

\* One pipeline under construction around any endpoint; no request yet.
Init ==
    /\ phase = "build"
    /\ draft = NoDraft
    /\ \E e \in Endpoints :
          apps = [a \in AppIds |-> IF a = "a1" THEN Bare(e) ELSE Bare(ServiceEndpoint)]
    /\ InitRequests
    /\ calls = <<>>
    /\ ready = [a \in AppIds |-> "ReadyOk"]

reqVars == <<pc, target, request, depth, extracted, outcome, log>>

\* $config::new()
New(kind) ==
    /\ phase = "build"
    /\ draft' = NewConfig(kind)
    /\ calls' = <<>>
    /\ UNCHANGED <<phase, apps, ready, reqVars>>

\* $config::rejection_handler(f)
SetRejectionHandler(f) ==
    /\ phase = "build"
    /\ draft # NoDraft
    /\ Len(calls) < MaxCalls
    /\ draft' = WithRejectionHandler(draft, f)
    /\ calls' = Append(calls, f)
    /\ UNCHANGED <<phase, apps, ready, reqVars>>

\* app.layer(config)
Layer(a) ==
    /\ phase = "build"
    /\ draft # NoDraft
    /\ Len(apps[a].layers) < MaxLayers
    /\ apps' = [apps EXCEPT ![a].layers = LayerOn(draft, @)]
    /\ UNCHANGED <<phase, draft, calls, ready, reqVars>>

\* The pipelines are handed to the server.
Serve ==
    /\ phase = "build"
    /\ phase' = "serve"
    /\ draft' = NoDraft
    /\ calls' = <<>>
    /\ UNCHANGED <<apps, ready, reqVars>>

\* The endpoint of app a, polled, is no longer pending.
InnerPoll(a, poll) ==
    /\ phase = "serve"
    /\ ready[a] = "Pending"
    /\ ready' = [ready EXCEPT ![a] = poll]
    /\ UNCHANGED <<phase, draft, calls, apps, reqVars>>

\* A request arrives at app a: the caller has polled the pipeline ready.
Send(r, a, ctype, payload) ==
    /\ phase = "serve"
    /\ pc[r] = "idle"
    /\ PollReady(apps[a].layers, ready[a]) = "ReadyOk"
    /\ target' = [target EXCEPT ![r] = a]
    /\ request' = [request EXCEPT ![r] =
                      [ctype |-> ctype, payload |-> payload, body |-> "present",
                       extensions |-> {}]]
    /\ depth' = [depth EXCEPT ![r] = 1]
    /\ pc' = [pc EXCEPT ![r] = IF apps[a].layers = <<>> THEN "endpoint" ELSE "call"]
    /\ UNCHANGED <<phase, draft, calls, ready, apps, extracted, outcome, log>>

\* Variant: the carrier goes into a context that all requests share.
CallShared(r) ==
    /\ pc[r] = "call"
    /\ LET i == depth[r]
           c == AddConfigCall(Layers(r)[i], request[r])
       IN  IF c.future = "right"
           THEN /\ request' = request
                /\ outcome' = [outcome EXCEPT ![r] = c.ready]
                /\ pc' = [pc EXCEPT ![r] = "return"]
                /\ depth' = [depth EXCEPT ![r] = i - 1]
                /\ log' = [log EXCEPT ![r] =
                             Append(@, [ev |-> "duplicate", layer |-> i,
                                        received |-> request[r]])]
           ELSE /\ request' = [q \in ReqIds |->
                                 [request[q] EXCEPT !.extensions = c.req.extensions]]
                /\ outcome' = outcome
                /\ pc' = [pc EXCEPT ![r] =
                             IF i = Len(Layers(r)) THEN "endpoint" ELSE "call"]
                /\ depth' = [depth EXCEPT ![r] = i + 1]
                /\ log' = [log EXCEPT ![r] =
                             Append(@, [ev |-> "forward", layer |-> i,
                                        received |-> request[r], req |-> c.req])]
    /\ UNCHANGED <<phase, draft, calls, ready, apps, target, extracted>>

\* AddConfig::call of the layer at depth[r].
Call(r) ==
    /\ pc[r] = "call"
    /\ LET i == depth[r]
           c == AddConfigCall(Layers(r)[i], request[r])
       IN  /\ request' = [request EXCEPT ![r] = c.req]
           /\ IF c.future = "right"
              THEN /\ outcome' = [outcome EXCEPT ![r] = c.ready]
                   /\ pc' = [pc EXCEPT ![r] = "return"]
                   /\ depth' = [depth EXCEPT ![r] = i - 1]
                   /\ log' = [log EXCEPT ![r] =
                                Append(@, [ev |-> "duplicate", layer |-> i,
                                           received |-> request[r]])]
              ELSE /\ outcome' = outcome
                   /\ pc' = [pc EXCEPT ![r] =
                                IF i = Len(Layers(r)) THEN "endpoint" ELSE "call"]
                   /\ depth' = [depth EXCEPT ![r] = i + 1]
                   /\ log' = [log EXCEPT ![r] =
                                Append(@, [ev |-> "forward", layer |-> i,
                                           received |-> request[r], req |-> c.req])]
    /\ UNCHANGED <<phase, draft, calls, ready, apps, target, extracted>>

\* The handler binds its argument: the extractor's from_request.
Extract(r) ==
    /\ pc[r] = "endpoint"
    /\ apps[target[r]].endpoint.family # "service"
    /\ LET x == FromRequest(apps[target[r]].endpoint, request[r])
       IN  /\ extracted' = [extracted EXCEPT ![r] = x.result]
           /\ request' = [request EXCEPT ![r] = x.rp]
           /\ log' = [log EXCEPT ![r] =
                        Append(@, [ev |-> "endpoint", req |-> request[r]]) \o x.steps]
    /\ pc' = [pc EXCEPT ![r] = "handler"]
    /\ UNCHANGED <<phase, draft, calls, ready, apps, target, depth, outcome>>

\* The handler answers: its own response, or the extractor's rejection.
Respond(r) ==
    /\ pc[r] = "handler"
    /\ outcome' = [outcome EXCEPT ![r] = HandlerOutcome(extracted[r])]
    /\ depth' = [depth EXCEPT ![r] = Len(Layers(r))]
    /\ pc' = [pc EXCEPT ![r] = "return"]
    /\ UNCHANGED <<phase, draft, calls, ready, apps, target, request, extracted, log>>

\* An arbitrary inner service resolves.
ServiceCall(r, out) ==
    /\ pc[r] = "endpoint"
    /\ apps[target[r]].endpoint.family = "service"
    /\ outcome' = [outcome EXCEPT ![r] = out]
    /\ depth' = [depth EXCEPT ![r] = Len(Layers(r))]
    /\ pc' = [pc EXCEPT ![r] = "return"]
    /\ log' = [log EXCEPT ![r] = Append(@, [ev |-> "endpoint", req |-> request[r]])]
    /\ UNCHANGED <<phase, draft, calls, ready, apps, target, request, extracted>>

\* The left future of the layer at depth[r] resolves: map_ok over the inner result.
Return(r) ==
    /\ pc[r] = "return"
    /\ depth[r] >= 1
    /\ outcome' = [outcome EXCEPT ![r] = MapOk(@)]
    /\ log' = [log EXCEPT ![r] =
                 Append(@, [ev |-> "return", layer |-> depth[r],
                            inner |-> outcome[r], out |-> MapOk(outcome[r])])]
    /\ depth' = [depth EXCEPT ![r] = @ - 1]
    /\ UNCHANGED <<phase, draft, calls, ready, apps, pc, target, request, extracted>>

\* The outermost future has resolved: the caller holds the result.
Complete(r) ==
    /\ pc[r] = "return"
    /\ depth[r] = 0
    /\ pc' = [pc EXCEPT ![r] = "done"]
    /\ UNCHANGED <<phase, draft, calls, ready, apps, target, request, depth, extracted, outcome, log>>

\* The request and its context are dropped; the next request may arrive.
Drop(r) ==
    /\ pc[r] = "done"
    /\ pc' = [pc EXCEPT ![r] = "idle"]
    /\ request' = [request EXCEPT ![r] = NoRequest]
    /\ depth' = [depth EXCEPT ![r] = 0]
    /\ extracted' = [extracted EXCEPT ![r] = None]
    /\ outcome' = [outcome EXCEPT ![r] = None]
    /\ log' = [log EXCEPT ![r] = <<>>]
    /\ target' = [target EXCEPT ![r] = "a1"]
    /\ UNCHANGED <<phase, draft, calls, ready, apps>>

Build(a) ==
    \/ \E kind \in Kinds : New(kind)
    \/ \E f \in HandlerFns : SetRejectionHandler(f)
    \/ Layer(a)
    \/ Serve

Process(r, a) ==
    \/ \E ctype \in ContentTypes, payload \in Payloads : Send(r, a, ctype, payload)
    \/ Call(r)
    \/ Extract(r)
    \/ Respond(r)
    \/ \E out \in ServiceOutcomes : ServiceCall(r, out)
    \/ Return(r)
    \/ Complete(r)
    \/ Drop(r)

\* One pipeline, one request at a time.
Next == Build("a1") \/ Process("r1", "a1")

Spec == Init /\ [][Next]_vars

(***************************************************************************)
(* Properties                                                              *)
(***************************************************************************)
\* The requests that run under Spec.
Requests == {"r1"}

\* Positions of the log of r that hold an event of the given name.
Events(r, name) == {p \in DOMAIN log[r] : log[r][p].ev = name}

\* Two layers of the stack carry the same configuration type.
HasDuplicate(layers) ==
    \E i, j \in DOMAIN layers : i < j /\ layers[i].kind = layers[j].kind

DuplicatedKinds(layers) ==
    {layers[i].kind : i \in {i \in DOMAIN layers :
                                \E j \in DOMAIN layers : i < j /\ layers[i].kind = layers[j].kind}}

(***************************************************************************)
(* C1: when two or more layers of the same (T, B) pairing are stacked on a *)
(* pipeline, every request through it, whatever its content type or        *)
(* payload, is answered with the duplicate-layer error response, and the   *)
(* inner handler (the endpoint) is never invoked for it.                   *)
(***************************************************************************)
C1_DuplicateLayersAlwaysError ==
    \A r \in Requests :
        (pc[r] # "idle" /\ HasDuplicate(Layers(r))) =>
            /\ pc[r] \notin {"endpoint", "handler"}
            /\ Events(r, "endpoint") = {}
            /\ extracted[r] = None
            /\ pc[r] = "done" =>
                 \E k \in DuplicatedKinds(Layers(r)) :
                     outcome[r] = Ok(AsResponse(DuplicateResponse(k)))

C1_Witness ==
    /\ pc["r1"] = "done"
    /\ HasDuplicate(Layers("r1"))
    /\ request["r1"].payload = <<"id", "1">>
    /\ request["r1"].ctype = ApplicationJson
    /\ outcome["r1"] = Ok(AsResponse(DuplicateResponse("Json")))

(***************************************************************************)
(* C2: the response a layer produces when a carrier of its pairing is      *)
(* already in the request context has status 500, content-type             *)
(* `text/plain; charset=utf-8` and the fixed body                          *)
(* `Config of type "<type name of T>" was already added. Configs can you   *)
(* be added once`; only the type name varies.                              *)
(***************************************************************************)
C2_ExpectedBody(kind) ==
    IF kind = "Json"
    THEN "Config of type \"axum_extractor_config::via_extensions::JsonConfig<hyper::body::body::Body>\" was already added. Configs can you be added once"
    ELSE "Config of type \"" \o TypeName(kind) \o "\" was already added. Configs can you be added once"

C2_DuplicateResponseShape ==
    \A r \in Requests :
        \A p \in Events(r, "duplicate") :
            LET kind == Layers(r)[log[r][p].layer].kind
                expected == [status |-> 500, ctype |-> "text/plain; charset=utf-8",
                             body |-> C2_ExpectedBody(kind)]
            IN  \* the response leaves the layer, and the pipeline, in this shape
                /\ (pc[r] \in {"return", "done"}) => outcome[r] = Ok(AsResponse(expected))
                /\ p = Len(log[r]) \/ log[r][p + 1].ev = "return"

C2_Witness ==
    /\ pc["r1"] = "return"
    /\ Events("r1", "duplicate") # {}
    /\ log["r1"][Len(log["r1"])].ev = "duplicate"
    /\ Layers("r1")[log["r1"][Len(log["r1"])].layer].kind = "Query"
    /\ outcome["r1"].val.resp.status = 500

(***************************************************************************)
(* C3: when the request context holds no carrier of the layer's pairing,   *)
(* the layer installs a clone of its configuration under that pairing      *)
(* before invoking the inner handler, invokes the inner handler exactly    *)
(* once with that request, and returns the inner handler's response        *)
(* unchanged.                                                              *)
(***************************************************************************)
C3_Forwarded(r, p) ==
    LET e == log[r][p]
        config == Layers(r)[e.layer]
        key == ConfigKey(config.kind)
    IN  \* the context held no carrier, and now holds the layer's configuration
        /\ ExtGet(e.received.extensions, key) = None
        /\ ExtGet(e.req.extensions, key) = Some(Carrier(config))
        \* nothing else of the request changed
        /\ e.req = [e.received EXCEPT !.extensions = e.req.extensions]
        /\ {x \in e.req.extensions : x.key # key} = e.received.extensions
        \* the inner handler is invoked next, with that request, and once
        /\ pc[r] \in {"call", "endpoint"} /\ p = Len(log[r]) => request[r] = e.req
        /\ p < Len(log[r]) =>
             LET n == log[r][p + 1]
             IN  IF e.layer = Len(Layers(r))
                 THEN n.ev = "endpoint" /\ n.req = e.req
                 ELSE n.ev \in {"forward", "duplicate"}
                        /\ n.layer = e.layer + 1 /\ n.received = e.req
        /\ Cardinality({q \in Events(r, "forward") \cup Events(r, "duplicate") :
                            log[r][q].layer = e.layer + 1}) <= 1
        /\ Cardinality(Events(r, "endpoint")) <= 1

C3_Returned(r, p) ==
    LET e == log[r][p]
    IN  /\ e.inner.tag = "Ok" =>
              /\ e.out.tag = "Ok"
              /\ e.out.val.repr = "Response"
              /\ e.out.val.resp = IntoResponse(e.inner.val)
              /\ e.inner.val.repr = "Response" => e.out = e.inner
        /\ e.inner.tag = "Err" => e.out = e.inner
        \* the layer that returns here is one that forwarded
        /\ \E q \in Events(r, "forward") : q < p /\ log[r][q].layer = e.layer
        /\ p = Len(log[r]) => outcome[r] = e.out

C3_LayerInstallsAndForwards ==
    \A r \in Requests :
        /\ \A p \in Events(r, "forward") : C3_Forwarded(r, p)
        /\ \A p \in Events(r, "return") : C3_Returned(r, p)
        /\ pc[r] = "done" =>
             \A q \in Events(r, "forward") :
                 \E p \in Events(r, "return") : log[r][p].layer = log[r][q].layer

C3_Witness ==
    /\ pc["r1"] = "done"
    /\ Len(Layers("r1")) = 2
    /\ Cardinality(Events("r1", "forward")) = 2
    /\ Cardinality(Events("r1", "return")) = 2
    /\ Layers("r1")[2].rejection_handler = Some("bad_request_handler")
    /\ outcome["r1"].tag = "Ok"
    /\ outcome["r1"].val.resp.status = BAD_REQUEST

(***************************************************************************)
(* Extraction: what the endpoint's extractor was given and what it did     *)
(***************************************************************************)
EndpointOf(r) == apps[target[r]].endpoint

\* The extractor of r has run.
Extracted(r) == extracted[r] # None

\* The request as the extractor received it.
Received(r) == log[r][CHOOSE p \in Events(r, "endpoint") : TRUE].req

\* The request as it entered the pipeline.
Sent(r) == [request[r] EXCEPT !.body = "present", !.extensions = {}]

LayersOfKind(r, kind) == {i \in DOMAIN Layers(r) : Layers(r)[i].kind = kind}

\* The values of the target type, and the requests that carry one well-formed.
Values == [id : {1, 2}]

RightContentType(kind, ctype) ==
    CASE kind = "Json" -> ctype = "application/json"
      [] kind = "Form" -> ctype = "application/x-www-form-urlencoded"
      [] kind = "Query" -> TRUE

WellFormed(kind, req) ==
    /\ RightContentType(kind, req.ctype)
    /\ \E v \in Values : req.payload = Encode(v)

\* The decoding library's response for the rejection of a malformed request.
DefaultRejectionResponse(rejection) ==
    [status |-> RejectionStatus(rejection), ctype |-> "text/plain; charset=utf-8",
     body |-> RejectionText(rejection)]

(***************************************************************************)
(* C4: for every malformed payload, when no configuration layer (of the    *)
(* extractor's kind) is installed, the runtime-configured extractor fails  *)
(* with the decoding library's default rejection response for that         *)
(* rejection: the lookup finds nothing and the default, handler-less       *)
(* configuration is used.                                                  *)
(***************************************************************************)
C4_NoLayerDefaultRejection ==
    \A r \in Requests :
        (/\ Extracted(r)
         /\ EndpointOf(r).family = "via_extensions"
         /\ LayersOfKind(r, EndpointOf(r).kind) = {}
         /\ ~WellFormed(EndpointOf(r).kind, Received(r))) =>
            LET rejection == Decode(EndpointOf(r).kind, Received(r)).result.val
            IN  /\ extracted[r] = Err(AsResponse(DefaultRejectionResponse(rejection)))
                /\ Events(r, "rejection_handler") = {}
                /\ \A p \in Events(r, "lookup") : ~log[r][p].found
                /\ Cardinality(Events(r, "lookup")) = 1
                /\ pc[r] = "done" =>
                     outcome[r] = Ok(AsResponse(DefaultRejectionResponse(rejection)))

\* Scenario B: {"id": "foo"} as JSON with no layer: 422, text/plain.
C4_Witness ==
    /\ pc["r1"] = "done"
    /\ EndpointOf("r1") = [family |-> "via_extensions", kind |-> "Json", C |-> "-"]
    /\ Layers("r1") = <<>>
    /\ request["r1"].payload = <<"id", "foo">>
    /\ request["r1"].ctype = "application/json"
    /\ outcome["r1"].tag = "Ok"
    /\ outcome["r1"].val.resp.status = 422
    /\ outcome["r1"].val.resp.ctype = "text/plain; charset=utf-8"

(***************************************************************************)
(* C5: for every malformed payload, when a layer carrying a custom         *)
(* rejection handler is installed for the extractor's kind, the extraction *)
(* error is exactly the response of that handler invoked with the          *)
(* rejection and the request; the library's default response is not used.  *)
(***************************************************************************)
C5_CustomHandlerUsed ==
    \A r \in Requests :
        \A i \in DOMAIN Layers(r) :
            (/\ Extracted(r)
             /\ EndpointOf(r).family = "via_extensions"
             /\ Layers(r)[i].kind = EndpointOf(r).kind
             /\ Layers(r)[i].rejection_handler # None
             /\ ~WellFormed(EndpointOf(r).kind, Received(r))) =>
                LET kind == EndpointOf(r).kind
                    f == Layers(r)[i].rejection_handler.val
                    d == Decode(kind, Received(r))
                    rejection == d.result.val
                IN  /\ extracted[r] = Err(AsResponse(ApplyHandler(f, rejection, request[r])))
                    /\ extracted[r] # Err(AsResponse(DefaultRejectionResponse(rejection)))
                    /\ Cardinality(Events(r, "rejection_handler")) = 1
                    /\ \A p \in Events(r, "rejection_handler") :
                          /\ log[r][p].f = f
                          /\ log[r][p].rejection = rejection
                          /\ log[r][p].rp = d.rp
                    /\ pc[r] = "done" =>
                         outcome[r] = Ok(AsResponse(ApplyHandler(f, rejection, request[r])))

\* Scenario C: {"id": "foo"} with the custom handler: 422, application/json.
C5_Witness ==
    /\ pc["r1"] = "done"
    /\ EndpointOf("r1") = [family |-> "via_extensions", kind |-> "Json", C |-> "-"]
    /\ Layers("r1") = <<WithRejectionHandler(DefaultConfig("Json"), "rejection_handler")>>
    /\ request["r1"].payload = <<"id", "foo">>
    /\ request["r1"].ctype = "application/json"
    /\ outcome["r1"].tag = "Ok"
    /\ outcome["r1"].val.resp.status = 422
    /\ outcome["r1"].val.resp.ctype = "application/json"

(***************************************************************************)
(* C6: for every well-formed payload matching the target type, the         *)
(* extractor of either family, with or without a configuration layer,      *)
(* yields the decoder's value unchanged (encode(value), decoded, is        *)
(* value), and no rejection handler is invoked.                            *)
(***************************************************************************)
C6_WellFormedYieldsValue ==
    \A r \in Requests :
        (Extracted(r) /\ WellFormed(EndpointOf(r).kind, Received(r))) =>
            /\ \E v \in Values :
                  /\ Received(r).payload = Encode(v)
                  /\ extracted[r] = Ok(v)
            /\ extracted[r] = Decode(EndpointOf(r).kind, Received(r)).result
            /\ Events(r, "rejection_handler") = {}
            /\ Events(r, "into_response_from_rejection") = {}
            /\ Events(r, "lookup") = {}
            /\ pc[r] = "done" => outcome[r] = Ok(AsResponse([status |-> 200, ctype |-> "", body |-> ""]))

C6_Witness ==
    /\ pc["r1"] = "done"
    /\ EndpointOf("r1") = [family |-> "via_types", kind |-> "Form", C |-> "CustomRejection"]
    /\ Layers("r1") = <<WithRejectionHandler(DefaultConfig("Form"), "rejection_handler")>>
    /\ request["r1"].payload = <<"id", "2">>
    /\ extracted["r1"] = Ok([id |-> 2])

(***************************************************************************)
(* C7: a pipeline with one layer holding the default configuration (no     *)
(* rejection handler) gives, for every request, the same response as the   *)
(* same pipeline with no configuration layer.                              *)
(***************************************************************************)
\* What the endpoint alone answers to the request as sent.
C7_WithoutLayer(r) ==
    IF EndpointOf(r).family = "service"
    THEN log[r][CHOOSE p \in Events(r, "return") : TRUE].inner
    ELSE HandlerOutcome(FromRequest(EndpointOf(r), Sent(r)).result)

\* The same result, as responses.
C7_SameResponse(a, b) ==
    /\ a.tag = b.tag
    /\ a.tag = "Ok" => IntoResponse(a.val) = IntoResponse(b.val)
    /\ a.tag = "Err" => a = b

C7_DefaultLayerIsNoLayer ==
    \A r \in Requests :
        (/\ pc[r] = "done"
         /\ \E k \in Kinds : Layers(r) = <<DefaultConfig(k)>>) =>
            /\ log[r][1].ev = "forward"
            /\ log[r][1].received = Sent(r)
            /\ C7_SameResponse(outcome[r], C7_WithoutLayer(r))

C7_Witness ==
    /\ pc["r1"] = "done"
    /\ EndpointOf("r1") = [family |-> "via_extensions", kind |-> "Query", C |-> "-"]
    /\ Layers("r1") = <<DefaultConfig("Query")>>
    /\ request["r1"].payload = <<"id">>
    /\ \E p \in Events("r1", "lookup") : log["r1"][p].found
    /\ outcome["r1"].val.resp.ctype = "text/plain; charset=utf-8"

(***************************************************************************)
(* C8: throughout a request's processing its context holds at most one     *)
(* carrier per (T, B) identity, and a carrier once installed is never      *)
(* overwritten or replaced by a later layer: a layer that finds one        *)
(* present reports the error instead of inserting.                         *)
(***************************************************************************)
C8_Step(r) ==
    LET before == request[r].extensions
        after == request'[r].extensions
    IN  /\ \A e1, e2 \in after : e1.key = e2.key => e1 = e2
        /\ pc'[r] # "idle" => \A e \in before : e \in after
        /\ (pc[r] = "call" /\ pc'[r] # "call"
              /\ ExtGet(before, ConfigKey(Layers(r)[depth[r]].kind)) # None) =>
                /\ after = before
                /\ pc'[r] = "return"
                /\ outcome'[r] = Ok(AsResponse(DuplicateResponse(Layers(r)[depth[r]].kind)))
        /\ (pc[r] = "call" /\ pc'[r] = "call") =>
              ExtGet(before, ConfigKey(Layers(r)[depth[r]].kind)) = None

C8_CarrierInstalledOnce == [][\A r \in Requests : C8_Step(r)]_vars

\* A second layer of the kind, with another configuration, met the first one's carrier.
C8_Witness ==
    /\ pc["r1"] = "return"
    /\ Events("r1", "duplicate") = {2}
    /\ Layers("r1")[1] = DefaultConfig("Json")
    /\ Layers("r1")[2] = WithRejectionHandler(DefaultConfig("Json"), "rejection_handler")
    /\ request["r1"].extensions =
          {[key |-> ConfigKey("Json"), value |-> Carrier(DefaultConfig("Json"))]}

(***************************************************************************)
(* C9: running a runtime-configured extractor, whether it succeeds or      *)
(* fails, never installs, removes or changes a carrier: the carriers in    *)
(* the request context after extraction are those before it.               *)
(***************************************************************************)
C9_ExtractionKeepsCarriers ==
    \A r \in Requests :
        (Extracted(r) /\ EndpointOf(r).family = "via_extensions") =>
            /\ request[r].extensions = Received(r).extensions
            /\ request[r].extensions =
                  {[key |-> ConfigKey(Layers(r)[i].kind), value |-> Carrier(Layers(r)[i])] :
                      i \in DOMAIN Layers(r)}

C9_Witness ==
    /\ pc["r1"] = "handler"
    /\ EndpointOf("r1").family = "via_extensions"
    /\ extracted["r1"].tag = "Err"
    /\ Events("r1", "rejection_handler") # {}
    /\ Cardinality(request["r1"].extensions) = 2
    /\ request["r1"].body = "taken"

(***************************************************************************)
(* C10: every error detected by a layer or by an extractor is turned into  *)
(* a response value at that point.  As first stated: every invocation of a *)
(* layered handler completes with a response, and no failure passes the    *)
(* layer boundary as an error.                                             *)
(***************************************************************************)
C10_AlwaysAResponse ==
    \A r \in Requests :
        (pc[r] = "done" /\ Layers(r) # <<>>) =>
            outcome[r].tag = "Ok" /\ outcome[r].val.repr = "Response"

(***************************************************************************)
(* C10, amended: the duplicate found by a layer and the rejection found by *)
(* an extractor become responses at that point, and a layered handler      *)
(* completes with a response unless its inner service itself fails: the    *)
(* error of the inner service (Error = S::Error) passes every layer        *)
(* unchanged.                                                              *)
(***************************************************************************)
C10_OwnErrorsBecomeResponses ==
    \A r \in Requests :
        \* a duplicate is answered with a response
        /\ (Events(r, "duplicate") # {} /\ pc[r] \in {"return", "done"}) =>
              outcome[r].tag = "Ok" /\ outcome[r].val.repr = "Response"
        \* a failed extraction is a response, and so is the handler's answer
        /\ (Extracted(r) /\ extracted[r].tag = "Err") =>
              /\ extracted[r].val.repr \in {"Response", "Rejection"}
              /\ pc[r] \in {"return", "done"} =>
                    outcome[r] = Ok(AsResponse(IntoResponse(extracted[r].val)))
        \* an Err at the end is the inner service's own, unchanged
        /\ (pc[r] = "done" /\ Layers(r) # <<>>) =>
              \/ outcome[r].tag = "Ok" /\ outcome[r].val.repr = "Response"
              \/ /\ outcome[r].tag = "Err"
                 /\ EndpointOf(r).family = "service"
                 /\ Events(r, "duplicate") = {}
                 /\ \A p \in Events(r, "return") :
                       log[r][p].inner = outcome[r] /\ log[r][p].out = outcome[r]

C10_Witness ==
    /\ pc["r1"] = "done"
    /\ Len(Layers("r1")) = 2
    /\ EndpointOf("r1").family = "service"
    /\ outcome["r1"] = Err([repr |-> "Error", msg |-> "service error"])
    /\ Cardinality(Events("r1", "return")) = 2

(***************************************************************************)
(* C11: for the compile-time-configured extractor with C the kind's own    *)
(* rejection type, the conversion is the identity: on a decode failure the *)
(* extraction error is the rejection value itself, and the response is the *)
(* decoding library's default response for that rejection.                 *)
(***************************************************************************)
C11_RejectionIsItsOwnResponse ==
    \A r \in Requests :
        (/\ Extracted(r)
         /\ EndpointOf(r).family = "via_types"
         /\ EndpointOf(r).C = "Rejection"
         /\ ~WellFormed(EndpointOf(r).kind, Received(r))) =>
            LET rejection == Decode(EndpointOf(r).kind, Received(r)).result.val
            IN  /\ extracted[r] = Err([repr |-> "Rejection", rejection |-> rejection])
                /\ \A p \in Events(r, "into_response_from_rejection") :
                      log[r][p].rejection = rejection
                /\ pc[r] = "done" =>
                     outcome[r] = Ok(AsResponse(DefaultRejectionResponse(rejection)))

\* via_types json_default_rejection: {"id": "foo"}: 422, text/plain.
C11_Witness ==
    /\ pc["r1"] = "done"
    /\ EndpointOf("r1") = [family |-> "via_types", kind |-> "Json", C |-> "Rejection"]
    /\ request["r1"].payload = <<"id", "foo">>
    /\ request["r1"].ctype = "application/json"
    /\ extracted["r1"].val.repr = "Rejection"
    /\ outcome["r1"].val.resp.status = 422
    /\ outcome["r1"].val.resp.ctype = "text/plain; charset=utf-8"

(***************************************************************************)
(* C12: for the compile-time-configured extractor with a custom            *)
(* capability type C, on a decode failure the extraction error is exactly  *)
(* C's conversion applied to the rejection and the request; on a decode    *)
(* success the decoded value is returned and C is not invoked.             *)
(***************************************************************************)
C12_CustomCapabilityUsed ==
    \A r \in Requests :
        (/\ Extracted(r)
         /\ EndpointOf(r).family = "via_types"
         /\ EndpointOf(r).C = "CustomRejection") =>
            LET kind == EndpointOf(r).kind
                d == Decode(kind, Received(r))
            IN  IF WellFormed(kind, Received(r))
                THEN /\ extracted[r] = Ok(d.result.val)
                     /\ Events(r, "into_response_from_rejection") = {}
                ELSE /\ extracted[r] =
                          Err(IntoResponseFromRejection("CustomRejection", d.result.val, d.rp))
                     \* the custom conversion of the tests: the default status, a JSON body
                     /\ extracted[r].val.repr = "Response"
                     /\ extracted[r].val.resp.ctype = "application/json"
                     /\ extracted[r].val.resp.status = RejectionStatus(d.result.val)
                     /\ Cardinality(Events(r, "into_response_from_rejection")) = 1
                     /\ \A p \in Events(r, "into_response_from_rejection") :
                           /\ log[r][p].C = "CustomRejection"
                           /\ log[r][p].rejection = d.result.val
                           /\ log[r][p].rp = request[r]
                     /\ pc[r] = "done" => outcome[r] = Ok(extracted[r].val)

\* via_types json_custom_rejection: {"id": "foo"}: 422, application/json.
C12_Witness ==
    /\ pc["r1"] = "done"
    /\ EndpointOf("r1") = [family |-> "via_types", kind |-> "Json", C |-> "CustomRejection"]
    /\ request["r1"].payload = <<"id", "foo">>
    /\ request["r1"].ctype = "application/json"
    /\ outcome["r1"].val.resp.status = 422
    /\ outcome["r1"].val.resp.ctype = "application/json"

(***************************************************************************)
(* C13: the compile-time-configured extractor performs no lookup in the    *)
(* request context: its outcome is the same whatever carriers are or are   *)
(* not present, and it never yields the duplicate-configuration error.     *)
(***************************************************************************)
C13_StaticExtractorIgnoresContext ==
    \A r \in Requests :
        (Extracted(r) /\ EndpointOf(r).family = "via_types") =>
            /\ Events(r, "lookup") = {}
            \* the same result as on the request with an empty context
            /\ extracted[r] =
                  FromRequestViaTypes(EndpointOf(r).kind, EndpointOf(r).C, Sent(r)).result
            /\ request[r].extensions = Received(r).extensions
            /\ \A k \in Kinds :
                  /\ extracted[r] # Err(AsResponse(DuplicateResponse(k)))
                  /\ pc[r] = "done" => outcome[r] # Ok(AsResponse(DuplicateResponse(k)))

\* A handler for the extractor's kind is in the context, and is not used.
C13_Witness ==
    /\ pc["r1"] = "done"
    /\ EndpointOf("r1") = [family |-> "via_types", kind |-> "Query", C |-> "Rejection"]
    /\ Layers("r1") = <<WithRejectionHandler(DefaultConfig("Query"), "bad_request_handler")>>
    /\ request["r1"].extensions # {}
    /\ request["r1"].payload = <<"id", "foo">>
    /\ extracted["r1"].tag = "Err"
    /\ outcome["r1"].val.resp.ctype = "text/plain; charset=utf-8"

(***************************************************************************)
(* C16: nothing is retried: within one request the extraction attempts its *)
(* decode at most once, a rejection handler is invoked at most once, each  *)
(* layer invokes its inner handler at most once, and once a failure        *)
(* response is produced no further decode, lookup or handler step happens  *)
(* for that request.                                                       *)
(***************************************************************************)
C16_RecoverySteps == {"lookup", "rejection_handler", "into_response_from_rejection"}

C16_NothingRetried ==
    \A r \in Requests :
        /\ Cardinality(Events(r, "decode")) <= 1
        /\ Cardinality(Events(r, "lookup")) <= 1
        /\ Cardinality(Events(r, "rejection_handler")
                         \cup Events(r, "into_response_from_rejection")) <= 1
        /\ Cardinality(Events(r, "endpoint")) <= 1
        /\ \A i \in DOMAIN Layers(r) :
              /\ Cardinality({p \in Events(r, "forward") \cup Events(r, "duplicate") :
                                 log[r][p].layer = i}) <= 1
              /\ Cardinality({p \in Events(r, "return") : log[r][p].layer = i}) <= 1
        \* after the duplicate response only the outer futures resolve
        /\ \A p \in Events(r, "duplicate") :
              \A q \in DOMAIN log[r] : q > p => log[r][q].ev = "return"
        \* after the rejection's response nothing is decoded, looked up or handled
        /\ \A p \in DOMAIN log[r] :
              log[r][p].ev \in C16_RecoverySteps =>
                 \A q \in DOMAIN log[r] :
                    q > p => /\ log[r][q].ev # "decode"
                             /\ log[r][q].ev # "endpoint"
                             /\ log[r][q].ev # log[r][p].ev
        \* a failed extraction is never followed by a successful one
        /\ (Extracted(r) /\ ~WellFormed(EndpointOf(r).kind, Received(r))) =>
              extracted[r].tag = "Err"

C16_Witness ==
    /\ pc["r1"] = "done"
    /\ EndpointOf("r1").family = "via_extensions"
    /\ Len(Layers("r1")) = 2
    /\ extracted["r1"].tag = "Err"
    /\ Cardinality(Events("r1", "decode")) = 1
    /\ Cardinality(Events("r1", "rejection_handler")) = 1
    /\ Cardinality(Events("r1", "return")) = 2

(***************************************************************************)
(* C18: the duplicate check is keyed on the exact (configuration type,     *)
(* body type) pairing: layers whose configuration types differ never       *)
(* produce the duplicate-layer error, all their carriers end up in the     *)
(* request context, and the inner handler is invoked.                      *)
(***************************************************************************)
C18_DistinctTypesStack ==
    \A r \in Requests :
        (pc[r] # "idle" /\ ~HasDuplicate(Layers(r))) =>
            /\ Events(r, "duplicate") = {}
            /\ pc[r] \in {"endpoint", "handler", "return", "done"} =>
                  /\ \A i \in DOMAIN Layers(r) :
                        [key |-> <<Layers(r)[i].kind \o "Config", "Body">>,
                         value |-> [config |-> Layers(r)[i]]] \in request[r].extensions
                  /\ Cardinality(request[r].extensions) = Len(Layers(r))
            /\ pc[r] \in {"handler", "return", "done"} =>
                  Cardinality(Events(r, "endpoint")) = 1
            /\ pc[r] = "done" =>
                  \A k \in Kinds : outcome[r] # Ok(AsResponse(DuplicateResponse(k)))

\* A JSON configuration over a query-string configuration.
C18_Witness ==
    /\ pc["r1"] = "done"
    /\ Layers("r1") = <<DefaultConfig("Json"),
                        WithRejectionHandler(DefaultConfig("Query"), "rejection_handler")>>
    /\ Cardinality(request["r1"].extensions) = 2
    /\ Events("r1", "endpoint") # {}
    /\ Events("r1", "duplicate") = {}

(***************************************************************************)
(* C19: an extractor consults only the configuration of its own payload    *)
(* kind: on a decode failure of one kind a rejection handler installed for *)
(* another kind is never invoked, and if no configuration of the failing   *)
(* kind is installed the default response is produced.                     *)
(***************************************************************************)
C19_OwnKindOnly ==
    \A r \in Requests :
        (Extracted(r) /\ EndpointOf(r).family = "via_extensions") =>
            LET kind == EndpointOf(r).kind
                own == LayersOfKind(r, kind)
            IN  /\ \A p \in Events(r, "lookup") :
                      log[r][p].kind = kind /\ (log[r][p].found <=> own # {})
                /\ \A p \in Events(r, "rejection_handler") :
                      \E i \in own : Layers(r)[i].rejection_handler = Some(log[r][p].f)
                /\ (/\ own = {}
                    /\ \E i \in DOMAIN Layers(r) : Layers(r)[i].rejection_handler # None
                    /\ ~WellFormed(kind, Received(r))) =>
                       /\ Events(r, "rejection_handler") = {}
                       /\ extracted[r].val.resp =
                             DefaultRejectionResponse(Decode(kind, Received(r)).result.val)

\* A JSON decode failure under a query-string handler and a form handler.
C19_Witness ==
    /\ pc["r1"] = "done"
    /\ EndpointOf("r1") = [family |-> "via_extensions", kind |-> "Json", C |-> "-"]
    /\ Layers("r1") = <<WithRejectionHandler(DefaultConfig("Query"), "rejection_handler"),
                        WithRejectionHandler(DefaultConfig("Form"), "bad_request_handler")>>
    /\ request["r1"].payload = <<"id", "foo">>
    /\ request["r1"].ctype = "application/json"
    /\ Events("r1", "rejection_handler") = {}
    /\ outcome["r1"].val.resp.ctype = "text/plain; charset=utf-8"

(***************************************************************************)
(* The two extractor families side by side: a runtime-configured extractor *)
(* on a pipeline without layers (a1) and the compile-time-configured       *)
(* extractor of the same kind with C = the rejection type (a2), each       *)
(* serving its own request.  A handler may bind several arguments of the   *)
(* extractor's type, so from_request may run again on the same request.    *)
(***************************************************************************)
\* The most arguments of one extractor type a handler binds.
MaxExtracts == 2

InitExtractors ==
    /\ phase = "serve"
    /\ draft = NoDraft
    /\ \E kind \in Kinds :
          apps = [a \in AppIds |->
                    IF a = "a1"
                    THEN Bare([family |-> "via_extensions", kind |-> kind, C |-> "-"])
                    ELSE Bare([family |-> "via_types", kind |-> kind, C |-> "Rejection"])]
    /\ InitRequests
    /\ calls = <<>>
    /\ ready = [a \in AppIds |-> "ReadyOk"]

\* The handler binds a further argument of the same type: from_request runs
\* on the request as the previous run left it.
ExtractAgain(r) ==
    /\ pc[r] = "handler"
    /\ extracted[r].tag = "Ok"
    /\ Cardinality({p \in DOMAIN log[r] : log[r][p].ev = "decode"}) < MaxExtracts
    /\ LET x == FromRequest(apps[target[r]].endpoint, request[r])
       IN  /\ extracted' = [extracted EXCEPT ![r] = x.result]
           /\ request' = [request EXCEPT ![r] = x.rp]
           /\ log' = [log EXCEPT ![r] = @ \o x.steps]
    /\ UNCHANGED <<phase, draft, calls, ready, apps, pc, target, depth, outcome>>

ProcessExtractor(r, a) ==
    \/ \E ctype \in ContentTypes, payload \in Payloads : Send(r, a, ctype, payload)
    \/ Extract(r)
    \/ ExtractAgain(r)
    \/ Respond(r)
    \/ Complete(r)
    \/ Drop(r)

NextExtractors == ProcessExtractor("r1", "a1") \/ ProcessExtractor("r2", "a2")

SpecExtractors == InitExtractors /\ [][NextExtractors]_vars

(***************************************************************************)
(* C17: repeating a successful decode on the same request, when what was   *)
(* decoded can be read again, yields the same decoded value as the first   *)
(* decode.                                                                 *)
(***************************************************************************)
\* The query string stays in the URI; a body is there until it has been taken.
C17_Readable(kind, rp) == kind = "Query" \/ rp.body = "present"

C17_Repeats(r) ==
    /\ pc[r] = "handler"
    /\ pc'[r] = "handler"
    /\ Len(log'[r]) > Len(log[r])

C20_SameRun ==
    /\ EndpointOf("r1").family = "via_extensions"
    /\ Layers("r1") = <<>>
    /\ EndpointOf("r2") = [family |-> "via_types", kind |-> EndpointOf("r1").kind,
                           C |-> "Rejection"]
    /\ pc["r1"] = pc["r2"]
    /\ pc["r1"] \in {"handler", "return", "done"}
    /\ Sent("r1") = Sent("r2")
    /\ Cardinality(Events("r1", "decode")) = Cardinality(Events("r2", "decode"))

\* The runtime family's error is already a response, the compile-time family's
\* is the rejection value: the two are compared as the responses they become.
C20_FamiliesAgree ==
    C20_SameRun =>
        /\ extracted["r1"].tag = extracted["r2"].tag
        /\ extracted["r1"].tag = "Ok" => extracted["r1"].val = extracted["r2"].val
        /\ extracted["r1"].tag = "Err" =>
              IntoResponse(extracted["r1"].val) = IntoResponse(extracted["r2"].val)
        /\ outcome["r1"] = outcome["r2"]
        /\ request["r1"] = request["r2"]

\* Both families have answered the same undecodable JSON body.
C20_Witness ==
    /\ C20_SameRun
    /\ pc["r1"] = "done"
    /\ EndpointOf("r1").kind = "Json"
    /\ request["r1"].ctype = "application/json"
    /\ request["r1"].payload = <<"id", "foo">>
    /\ extracted["r2"].tag = "Err"
    /\ outcome["r2"].val.resp.status = UNPROCESSABLE_ENTITY

(***************************************************************************)
(* One process serving two pipelines and two requests at once: a1 is       *)
(* layered by the builder with JSON and query-string configurations (so it *)
(* may end up with the same configuration type twice), a2 is a correctly   *)
(* layered pipeline with a configuration of its own.  The steps of the two *)
(* requests interleave freely.                                             *)
(***************************************************************************)
JsonEndpoint == [family |-> "via_extensions", kind |-> "Json", C |-> "-"]

ServingPayloads == {<<"id", "1">>, <<"id", "foo">>}

InitServing ==
    /\ phase = "build"
    /\ draft = NoDraft
    /\ apps = [a \in AppIds |->
                 IF a = "a1"
                 THEN Bare(JsonEndpoint)
                 ELSE [layers |-> LayerOn(WithRejectionHandler(NewConfig("Json"),
                                                               "bad_request_handler"), <<>>),
                       endpoint |-> JsonEndpoint]]
    /\ InitRequests
    /\ calls = <<>>
    /\ ready = [a \in AppIds |-> "ReadyOk"]

ServingKinds == {"Json", "Query"}

BuildServing ==
    \/ \E kind \in ServingKinds : New(kind)
    \/ SetRejectionHandler("rejection_handler")
    \/ Layer("a1")
    \/ Serve

ProcessServing(r) ==
    \/ \E a \in AppIds, payload \in ServingPayloads : Send(r, a, ApplicationJson, payload)
    \/ Call(r)
    \/ Extract(r)
    \/ Respond(r)
    \/ Return(r)
    \/ Complete(r)
    \/ Drop(r)

NextServing == BuildServing \/ ProcessServing("r1") \/ ProcessServing("r2")

SpecServing == InitServing /\ [][NextServing]_vars

(***************************************************************************)
(* C14: when several requests are in flight at once through the same       *)
(* layer, a carrier installed in one request's context is never visible in *)
(* another request's context, and no request changes the configuration     *)
(* stored in the layer: after any interleaving the layer's configuration   *)
(* equals the one it was built with.                                       *)
(***************************************************************************)
\* The context of r holds the carriers that r's own passages through the layers
\* of its own pipeline installed, and nothing else.
C14_OwnCarriers(r) ==
    request[r].extensions =
        {[key |-> <<Layers(r)[i].kind \o "Config", "Body">>,
          value |-> [config |-> Layers(r)[i]]] :
            i \in {log[r][p].layer : p \in Events(r, "forward")}}

C14_RequestsIsolated ==
    [][/\ phase = "serve" => apps' = apps
       /\ \A r \in ReqIds :
             /\ C14_OwnCarriers(r)'
             /\ (request'[r] # request[r] \/ log'[r] # log[r]) =>
                   \A q \in ReqIds \ {r} :
                      /\ request'[q] = request[q]
                      /\ log'[q] = log[q]
                      /\ outcome'[q] = outcome[q]]_vars

\* Two requests in the same layered pipeline: one has passed the layer and carries
\* its configuration, the other has arrived and carries nothing.
C14_Witness ==
    /\ target["r1"] = "a1" /\ target["r2"] = "a1"
    /\ Layers("r1") = <<WithRejectionHandler(DefaultConfig("Json"), "rejection_handler")>>
    /\ pc["r1"] = "handler"
    /\ request["r1"].extensions # {}
    /\ pc["r2"] = "call"
    /\ request["r2"].extensions = {}

(***************************************************************************)
(* C15: the duplicate-layer error is detected when a request is handled,   *)
(* not when the pipeline is built: building a pipeline with duplicated     *)
(* layers succeeds, every later request on it gets the duplicate error     *)
(* however many requests came before, and after any number of such errors  *)
(* requests on other, correctly layered pipelines in the same process are  *)
(* still served normally.                                                  *)
(***************************************************************************)
\* The request r completes in this step.
C15_Completes(r) == pc[r] # "done" /\ pc'[r] = "done"

C15_DuplicateDetectedPerRequest ==
    [][\* building: the layer goes on top, whatever is on the stack already
       /\ (phase = "build" /\ apps' # apps) =>
             /\ draft # NoDraft
             /\ apps' = [apps EXCEPT !["a1"].layers = <<draft>> \o @]
       \* serving: the pipelines stay as built
       /\ phase = "serve" => (phase' = "serve" /\ apps' = apps)
       \* every request that completes, whatever the other request got
       /\ \A r \in ReqIds :
             C15_Completes(r) =>
                IF HasDuplicate(Layers(r))
                THEN /\ \E k \in DuplicatedKinds(Layers(r)) :
                           outcome'[r] = Ok(AsResponse(DuplicateResponse(k)))
                     /\ Events(r, "endpoint") = {}
                ELSE /\ Cardinality(Events(r, "endpoint")) = 1
                     /\ Events(r, "duplicate") = {}
                     /\ outcome'[r] = Ok(AsResponse(IntoResponse(
                                         IF extracted[r].tag = "Ok"
                                         THEN Unit ELSE extracted[r].val)))]_vars

\* A pipeline with the JSON configuration twice has been built and has answered a
\* request with the error, while the other pipeline has served its request with
\* its own handler's response.
C15_Witness ==
    /\ phase = "serve"
    /\ HasDuplicate(apps["a1"].layers)
    /\ pc["r1"] = "done" /\ target["r1"] = "a1"
    /\ outcome["r1"] = Ok(AsResponse(DuplicateResponse("Json")))
    /\ pc["r2"] = "done" /\ target["r2"] = "a2"
    /\ request["r2"].payload = <<"id", "foo">>
    /\ Events("r2", "rejection_handler") # {}
    /\ outcome["r2"] = Ok(extracted["r2"].val)
    /\ Events("r2", "duplicate") = {}

(***************************************************************************)
(* C22: the configuration builder keeps at most one rejection handler: a   *)
(* new configuration has none, and after any sequence of calls to the      *)
(* handler-setting method the configuration holds exactly the handler      *)
(* given in the last call, so only that handler is invoked on a decode     *)
(* failure.                                                                *)
(***************************************************************************)
\* The handler of the last call since new(), if there was a call.
C22_LastGiven == IF calls = <<>> THEN None ELSE Some(calls[Len(calls)])

C22_BuilderKeepsLastHandler ==
    [][\* the configuration under construction holds the last handler given
       /\ draft' # NoDraft => draft'.rejection_handler = C22_LastGiven'
       \* and that is the handler the layer gets
       /\ \A a \in AppIds :
             apps'[a] # apps[a] =>
                /\ Head(apps'[a].layers).rejection_handler = C22_LastGiven
                /\ Head(apps'[a].layers).kind = draft.kind
       \* on a decode failure the one handler of the extractor's layer is invoked
       /\ \A r \in Requests :
             LET handled == {p \in DOMAIN log'[r] : log'[r][p].ev = "rejection_handler"}
             IN  /\ Cardinality(handled) <= 1
                 /\ \A p \in handled :
                       \E i \in DOMAIN apps'[target'[r]].layers :
                          /\ apps'[target'[r]].layers[i].kind = apps'[target'[r]].endpoint.kind
                          /\ apps'[target'[r]].layers[i].rejection_handler
                                = Some(log'[r][p].f)]_vars

\* Two handlers were given in turn; the layer built from the configuration holds
\* the second.
C22_Witness ==
    /\ calls = <<"rejection_handler", "bad_request_handler">>
    /\ draft = [kind |-> "Json", rejection_handler |-> Some("bad_request_handler")]
    /\ apps["a1"].layers = <<draft>>

(***************************************************************************)
(* One request through a pipeline of any layering, with the futures driven *)
(* to completion: the caller polls the pipeline until it is ready, calls   *)
(* it and awaits the result.  Every started step of the layers, and of the *)
(* endpoint once it has been invoked, is eventually taken.                 *)
(***************************************************************************)
InitLive ==
    /\ phase = "build"
    /\ draft = NoDraft
    /\ \E e \in {JsonEndpoint, ServiceEndpoint} :
          apps = [a \in AppIds |-> IF a = "a1" THEN Bare(e) ELSE Bare(ServiceEndpoint)]
    /\ InitRequests
    /\ calls = <<>>
    /\ ready = [a \in AppIds |-> "Pending"]

ProcessLive(r) ==
    \/ \E payload \in ServingPayloads : Send(r, "a1", ApplicationJson, payload)
    \/ Call(r)
    \/ Extract(r)
    \/ Respond(r)
    \/ \E out \in ServiceOutcomes : ServiceCall(r, out)
    \/ Return(r)
    \/ Complete(r)
    \/ Drop(r)

NextLive ==
    \/ BuildServing
    \/ \E poll \in {"ReadyOk", "ReadyErr"} : InnerPoll("a1", poll)
    \/ ProcessLive("r1")

\* The inner handler responds once invoked; the awaited futures are polled.
FairLive ==
    /\ WF_vars(Extract("r1"))
    /\ WF_vars(Respond("r1"))
    /\ WF_vars(\E out \in ServiceOutcomes : ServiceCall("r1", out))
    /\ WF_vars(Call("r1"))
    /\ WF_vars(Return("r1"))
    /\ WF_vars(Complete("r1"))

SpecLive == InitLive /\ [][NextLive]_vars /\ FairLive

(***************************************************************************)
(* C21: every request entering a pipeline of any number of stacked layers  *)
(* eventually receives exactly one response, provided the inner handler    *)
(* eventually responds whenever it is invoked: each layer either answers   *)
(* at once with the duplicate error or forwards once to its inner handler, *)
(* and its readiness is exactly the inner handler's readiness.             *)
(***************************************************************************)
C21_Entered(r) == pc[r] \notin {"idle", "done"}

\* The layers the request has met: each forwarded once, or the last answered itself.
C21_Met(r) == {log[r][p].layer : p \in Events(r, "forward") \cup Events(r, "duplicate")}

C21_OneResponse(r) ==
    /\ pc[r] = "done"
    /\ outcome[r] # None
    \* one answer at the bottom: a layer's duplicate error or the inner handler's
    /\ Cardinality(Events(r, "duplicate")) + Cardinality(Events(r, "endpoint")) = 1
    /\ Events(r, "endpoint") # {} => C21_Met(r) = DOMAIN Layers(r)
    /\ \A i \in C21_Met(r) :
          Cardinality({p \in Events(r, "forward") \cup Events(r, "duplicate") :
                          log[r][p].layer = i}) = 1
    \* and every layer that forwarded handed one result back
    /\ \A p \in Events(r, "forward") :
          Cardinality({q \in Events(r, "return") : log[r][q].layer = log[r][p].layer}) = 1
    /\ Cardinality(Events(r, "return")) = Cardinality(Events(r, "forward"))
    \* through a layer it is a response, unless the inner handler itself answered
    \* with its error
    /\ Layers(r) # <<>> =>
          \/ outcome[r].tag = "Ok" /\ outcome[r].val.repr = "Response"
          \/ outcome[r].tag = "Err" /\ EndpointOf(r).family = "service"

C21_EveryRequestAnswered ==
    /\ \A r \in Requests : C21_Entered(r) ~> C21_OneResponse(r)
    /\ [](\A a \in AppIds : PollReady(apps[a].layers, ready[a]) = ready[a])
    /\ [][\A r \in Requests :
             (pc[r] = "idle" /\ pc'[r] # "idle") => ready[target'[r]] = "ReadyOk"]_vars

\* Two layers of different kinds around a ready endpoint, and the request answered.
C21_Witness ==
    /\ C21_OneResponse("r1")
    /\ Len(Layers("r1")) = 2
    /\ ~HasDuplicate(Layers("r1"))
    /\ ready["a1"] = "ReadyOk"
    /\ Cardinality(Events("r1", "return")) = 2

====
